---- MODULE Spec2Model ----
(***************************************************************************)
(* Model of the ExplanationEngine of the SHiNE framework.                  *)
(*                                                                         *)
(* Python strings that the code concatenates, lower-cases or substitutes   *)
(* into (current_task, rule_id, the explanation key, templates, User_Name) *)
(* are sequences of one-character strings, so that str.lower, + and        *)
(* str.replace are computed character by character.  Strings that are only *)
(* compared or used as dictionary keys (log type, environment attribute    *)
(* name, Technical_Interest, occurrence) are TLA+ strings.                 *)
(* A Python dict is a function whose DOMAIN is the set of its keys.        *)
(***************************************************************************)
EXTENDS Integers, Sequences, FiniteSets, TLC

\* user_data: the session store of app.py; explanation_table, explanations:
\* the contents of resources/explanation_table.json and resources/explanations.json;
\* arg, ret: the user id of the last call of generate_explanation and its result;
\* again: the last call repeated the call before it;
\* engine_type: the transport binding app.py registers;
\* event, out: the last transport event handled and what its handler sent back;
\* threads: the handlers that run concurrently, each with its position
VARIABLES user_data, explanation_table, explanations, arg, ret, again,
          engine_type, event, out, threads

vars == <<user_data, explanation_table, explanations, arg, ret, again,
          engine_type, event, out, threads>>

(***************************************************************************)
(* Bounds of the model.                                                    *)
(***************************************************************************)
\* longest log list of a snapshot
MaxLogs == 4

(***************************************************************************)
(* String literals.                                                        *)
(***************************************************************************)
Alice == <<"A", "l", "i", "c", "e">>
Bob == <<"B", "o", "b">>
EmptyStr == <<>>
Greet == <<"G", "r", "e", "e", "t">>
greet == <<"g", "r", "e", "e", "t">>
Underscore == <<"_">>
RuleSuffix == <<"_", "r", "u", "l", "e">>
Static == <<"s", "t", "a", "t", "i", "c">>
Treatment == <<"t", "r", "e", "a", "t", "m", "e", "n", "t">>
soft == <<"s", "o", "f", "t">>
tech == <<"t", "e", "c", "h">>
greet_rule == <<"g", "r", "e", "e", "t", "_", "r", "u", "l", "e">>
Greet_rule == <<"G", "r", "e", "e", "t", "_", "r", "u", "l", "e">>
NoDataText ==
  <<"N", "o", " ", "d", "a", "t", "a", " ", "a", "v", "a", "i", "l", "a", "b", "l", "e", " ",
    "f", "o", "r", " ", "e", "x", "p", "l", "a", "n", "a", "t", "i", "o", "n", ".">>
NothingText ==
  <<"N", "o", "t", "h", "i", "n", "g", " ", "t", "o", " ", "e", "x", "p", "l", "a", "i", "n", " ",
    "y", "e", "t", ".">>
NotFoundText ==
  <<"E", "x", "p", "l", "a", "n", "a", "t", "i", "o", "n", " ", "n", "o", "t", " ",
    "f", "o", "u", "n", "d", ".">>

(***************************************************************************)
(* Python built-ins used by the code.                                      *)
(***************************************************************************)
UpperCase ==
  <<"A", "B", "C", "D", "E", "F", "G", "H", "I", "J", "K", "L", "M",
    "N", "O", "P", "Q", "R", "S", "T", "U", "V", "W", "X", "Y", "Z">>
LowerCase ==
  <<"a", "b", "c", "d", "e", "f", "g", "h", "i", "j", "k", "l", "m",
    "n", "o", "p", "q", "r", "s", "t", "u", "v", "w", "x", "y", "z">>

\* str.lower() on one character
LowerChar(c) ==
  IF \E i \in DOMAIN UpperCase : UpperCase[i] = c
  THEN LowerCase[CHOOSE i \in DOMAIN UpperCase : UpperCase[i] = c]
  ELSE c

\* str.lower()
Lower(s) == [i \in DOMAIN s |-> LowerChar(s[i])]

\* s.startswith(p)
StartsWith(s, p) == Len(s) >= Len(p) /\ SubSeq(s, 1, Len(p)) = p

\* p in s
Contains(s, p) == \E i \in 0..(Len(s) - Len(p)) : SubSeq(s, i + 1, i + Len(p)) = p

\* s.replace(old, new) with old non-empty: the non-overlapping occurrences of
\* old, found scanning from the left, are each replaced by new
RECURSIVE Replace(_, _, _)
Replace(s, old, new) ==
  IF Len(s) < Len(old) THEN s
  ELSE IF StartsWith(s, old)
       THEN new \o Replace(SubSeq(s, Len(old) + 1, Len(s)), old, new)
       ELSE <<Head(s)>> \o Replace(Tail(s), old, new)

\* dict.get(key, default)
DictGet(d, key, default) == IF key \in DOMAIN d THEN d[key] ELSE default

EmptyDict == [k \in {} |-> 0]

\* Python's None, for the locals the code initialises to None
None == [set |-> FALSE]
Some(v) == [set |-> TRUE, value |-> v]

(***************************************************************************)
(* explanation.py                                                          *)
(***************************************************************************)
\* the value of the last environment record named name, or None (lines 13-22:
\* every matching record overwrites the local, so the last one wins)
RECURSIVE EnvValue(_, _)
EnvValue(environment, name) ==
  IF environment = <<>> THEN None
  ELSE LET env_item == environment[Len(environment)]
       IN IF env_item["name"] = name
          THEN Some(env_item["value"])
          ELSE EnvValue(SubSeq(environment, 1, Len(environment) - 1), name)

\* the rule id built without lower-casing the task
RuleIdNoLower(current_task) == current_task \o RuleSuffix

\* rule_id = current_task.lower() + "_rule"
RuleId(current_task) == Lower(current_task) \o RuleSuffix

\* a log that is None cannot be subscripted: log["type"] raises TypeError
LogsRaise(logs) == \E i \in DOMAIN logs : logs[i] = None

\* the loop of lines 26-29
RECURSIVE OccurrenceCount(_, _)
OccurrenceCount(logs, rule_id) ==
  IF logs = <<>> THEN 0
  ELSE LET log == Head(logs)
       IN (IF log["type"] = "RULE" /\ log["rule_id"] = rule_id THEN 1 ELSE 0)
          + OccurrenceCount(Tail(logs), rule_id)

\* the buckets with "more" reached one occurrence early
OccurrenceEarlyMore(occurrence_count) ==
  IF occurrence_count = 0 THEN "none"
  ELSE IF occurrence_count = 1 THEN "first"
  ELSE "more"

\* lines 31-40; "none" stands for the early return of line 32
Occurrence(occurrence_count) ==
  IF occurrence_count = 0 THEN "none"
  ELSE IF occurrence_count = 1 THEN "first"
  ELSE IF occurrence_count = 2 THEN "second"
  ELSE "more"

\* a truthiness test in place of the comparison with 1
IsStaticTruthy(condition_id) == condition_id.set /\ condition_id.value # 0

\* condition_id == 1
IsStatic(condition_id) == condition_id.set /\ condition_id.value = 1

\* explanation_table[interest][occurrence][task]: the entry, or a KeyError.
\* None is never a key of a table loaded from JSON.
get_explanation_type(table, interest, occurrence, task) ==
  IF interest.set
     /\ interest.value \in DOMAIN table
     /\ occurrence \in DOMAIN table[interest.value]
     /\ task \in DOMAIN table[interest.value][occurrence]
  THEN [raised |-> FALSE, value |-> table[interest.value][occurrence][task]]
  ELSE [raised |-> TRUE, value |-> EmptyStr]

\* explanations.get(explanation_key, "Explanation not found.")
get_explanation_from_json(texts, explanation_key) ==
  DictGet(texts, explanation_key, NotFoundText)

\* s.replace(old, new, 1)
RECURSIVE ReplaceFirst(_, _, _)
ReplaceFirst(s, old, new) ==
  IF Len(s) < Len(old) THEN s
  ELSE IF StartsWith(s, old)
       THEN new \o SubSeq(s, Len(old) + 1, Len(s))
       ELSE <<Head(s)>> \o ReplaceFirst(Tail(s), old, new)

\* the substitution of the first occurrence only
SubstituteFirst(template, user_name) ==
  IF user_name.set
  THEN [raised |-> FALSE, value |-> ReplaceFirst(template, Alice, user_name.value)]
  ELSE [raised |-> TRUE, value |-> EmptyStr]

\* str.replace("Alice", user_name): a TypeError when user_name is None
Substitute(template, user_name) ==
  IF user_name.set
  THEN [raised |-> FALSE, value |-> Replace(template, Alice, user_name.value)]
  ELSE [raised |-> TRUE, value |-> EmptyStr]

\* what a call leaves behind: how it ended (a return or an escaping
\* exception), the returned pair, the printed key and the files it opened
Result(outcome, exception, text, available, occ, key_built, key, type_read, text_read) ==
  [outcome |-> outcome, exception |-> exception, text |-> text,
   available |-> available, occurrence |-> occ, key_built |-> key_built,
   explanation_key |-> key, type_read |-> type_read, text_read |-> text_read]

\* the no-data result reported as available
NoDataResultAvailable ==
  Result("return", "", NoDataText, TRUE, "", FALSE, EmptyStr, FALSE, FALSE)

\* return "No data available for explanation.", False
NoDataResult == Result("return", "", NoDataText, FALSE, "", FALSE, EmptyStr, FALSE, FALSE)

\* return "Nothing to explain yet.", False
NothingResult == Result("return", "", NothingText, FALSE, "none", FALSE, EmptyStr, FALSE, FALSE)

\* a call that leaves an empty entry behind for the user id it looked up
\* (setdefault in place of get)
StoreAfterSetDefault(user_id, store) ==
  IF user_id \in DOMAIN store THEN store ELSE store @@ (user_id :> EmptyDict)

\* a call that consumes the logs it counted
StoreAfterConsume(user_id, store) ==
  IF user_id \in DOMAIN store /\ "logs" \in DOMAIN store[user_id]
  THEN [store EXCEPT ![user_id] = [store[user_id] EXCEPT !["logs"] = <<>>]]
  ELSE store

\* the store after a call: user_data.get and data.get only read, and nothing
\* in lines 4-54 assigns into user_data or into the snapshot
StoreAfterCall(user_id, store) == store

generate_explanation(user_id, store, table, texts) ==
  LET data == DictGet(store, user_id, EmptyDict)
  IN IF DOMAIN data = {} \/ "current_task" \notin DOMAIN data
     THEN NoDataResult
     ELSE
     LET current_task == data["current_task"]
         environment == DictGet(data, "environment", <<>>)
         condition_id == EnvValue(environment, "Condition")
         interest == EnvValue(environment, "Technical_Interest")
         user_name == EnvValue(environment, "User_Name")
         rule_id == RuleId(current_task)
         occurrence_count == OccurrenceCount(DictGet(data, "logs", <<>>), rule_id)
         occurrence == Occurrence(occurrence_count)
     IN IF LogsRaise(DictGet(data, "logs", <<>>))
        THEN Result("raise", "TypeError", EmptyStr, FALSE, "", FALSE, EmptyStr, FALSE, FALSE)
        ELSE IF occurrence_count = 0
        THEN NothingResult
        ELSE
        LET static == IsStatic(condition_id)
            type == IF static
                    THEN [raised |-> FALSE, value |-> EmptyStr]
                    ELSE get_explanation_type(table, interest, occurrence, current_task)
            condition == IF static THEN Static ELSE Treatment
            explanation_type == IF static THEN EmptyStr ELSE Underscore \o type.value
            explanation_key == current_task \o Underscore \o condition \o explanation_type
            explanation == Substitute(get_explanation_from_json(texts, explanation_key),
                                      user_name)
        IN IF type.raised
           THEN Result("raise", "KeyError", EmptyStr, FALSE, occurrence, FALSE, EmptyStr,
                       TRUE, FALSE)
           ELSE IF explanation.raised
           THEN Result("raise", "TypeError", EmptyStr, FALSE, occurrence, TRUE,
                       explanation_key, ~static, TRUE)
           ELSE Result("return", "", explanation.value, TRUE, occurrence, TRUE,
                       explanation_key, ~static, TRUE)

(***************************************************************************)
(* The inputs: session stores and corpus tables.                           *)
(***************************************************************************)
UserIds == {"u1", "u2"}

Hi == <<"H", "i">>
HiAlice == <<"H", "i", " ", "A", "l", "i", "c", "e">>
AlAliceice == <<"A", "l", "A", "l", "i", "c", "e", "i", "c", "e">>
AliceAlice == <<"A", "l", "i", "c", "e", "A", "l", "i", "c", "e">>
Greet_static == <<"G", "r", "e", "e", "t", "_", "s", "t", "a", "t", "i", "c">>
greet_static == <<"g", "r", "e", "e", "t", "_", "s", "t", "a", "t", "i", "c">>
Greet_treatment_soft ==
  <<"G", "r", "e", "e", "t", "_", "t", "r", "e", "a", "t", "m", "e", "n", "t", "_",
    "s", "o", "f", "t">>
greet_treatment_soft ==
  <<"g", "r", "e", "e", "t", "_", "t", "r", "e", "a", "t", "m", "e", "n", "t", "_",
    "s", "o", "f", "t">>
Greet_treatment_tech ==
  <<"G", "r", "e", "e", "t", "_", "t", "r", "e", "a", "t", "m", "e", "n", "t", "_",
    "t", "e", "c", "h">>
greet_treatment_tech ==
  <<"g", "r", "e", "e", "t", "_", "t", "r", "e", "a", "t", "m", "e", "n", "t", "_",
    "t", "e", "c", "h">>

\* interest -> occurrence -> task -> suffix
TypeTable1 ==
  "low" :> ("first" :> (Greet :> soft @@ greet :> soft) @@ "second" :> (Greet :> tech))
TypeTable2 ==
  "low" :> ("first" :> (greet :> tech) @@ "second" :> (Greet :> soft @@ greet :> soft)
            @@ "more" :> (Greet :> tech @@ greet :> soft))
  @@ "high" :> ("more" :> (Greet :> soft))

\* explanation key -> template
TextTable1 ==
  Greet_static :> HiAlice @@ greet_static :> Hi
  @@ Greet_treatment_soft :> AlAliceice @@ greet_treatment_soft :> AliceAlice
TextTable2 ==
  Greet_treatment_tech :> AliceAlice @@ greet_treatment_soft :> HiAlice

Corpora == {<<TypeTable1, TextTable1>>, <<TypeTable2, TextTable2>>}

Tasks == {Greet, greet}
Conditions == {0, 1, 2}
Interests == {"low", "high"}
UserNames == {Bob, Alice, EmptyStr}

EnvRecord(name, value) == [name |-> name, value |-> value]

\* an environment list: an attribute the code does not know, then the
\* recognised attributes that are present
Environment(condition_id, interest, user_name) ==
  <<EnvRecord("Language", "en")>>
  \o (IF condition_id.set THEN <<EnvRecord("Condition", condition_id.value)>> ELSE <<>>)
  \o (IF interest.set THEN <<EnvRecord("Technical_Interest", interest.value)>> ELSE <<>>)
  \o (IF user_name.set THEN <<EnvRecord("User_Name", user_name.value)>> ELSE <<>>)

LogRecords ==
  {[type |-> "RULE", rule_id |-> greet_rule],
   [type |-> "RULE", rule_id |-> Greet_rule],
   [type |-> "CLICK"]}

LogLists == UNION {[1..n -> LogRecords] : n \in 0..MaxLogs}

Optional(S) == {None} \cup {Some(v) : v \in S}

\* a conforming snapshot: every key but user_id may be missing
Snapshot(user_id, current_task, environment, logs) ==
  ("user_id" :> user_id)
  @@ (IF current_task.set THEN "current_task" :> current_task.value ELSE EmptyDict)
  @@ (IF environment.set THEN "environment" :> environment.value ELSE EmptyDict)
  @@ (IF logs.set THEN "logs" :> logs.value ELSE EmptyDict)

NoCall == Result("none", "", EmptyStr, FALSE, "", FALSE, EmptyStr, FALSE, FALSE)

\* no event handled yet, nothing sent
NoEvent == [kind |-> "none", user_id |-> "", data |-> EmptyDict]
NoOutput == [kind |-> "none", user_id |-> "", show_explanation |-> FALSE,
             explanation |-> EmptyStr]

(***************************************************************************)
(* The resolver applied to the stores the transport handlers can build.    *)
(***************************************************************************)
Init ==
  /\ \E corpus \in Corpora :
       /\ explanation_table = corpus[1]
       /\ explanations = corpus[2]
  /\ \/ user_data = EmptyDict
     \/ \E current_task \in Optional(Tasks), logs \in Optional(LogLists) :
          \/ user_data = "u1" :> Snapshot("u1", current_task, None, logs)
          \/ \E condition_id \in Optional(Conditions), interest \in Optional(Interests),
                user_name \in Optional(UserNames) :
               user_data = "u1" :> Snapshot("u1", current_task,
                                            Some(Environment(condition_id, interest,
                                                             user_name)),
                                            logs)
  /\ arg = ""
  /\ ret = NoCall
  /\ again = FALSE
  /\ engine_type = "REST"
  /\ event = NoEvent
  /\ out = NoOutput
  /\ threads = <<>>

\* a call generate_explanation(user_id, user_data), as the handlers make it
Resolve(user_id) ==
  /\ arg' = user_id
  /\ ret' = generate_explanation(user_id, user_data, explanation_table, explanations)
  /\ again' = (ret.outcome # "none" /\ arg = user_id)
  /\ user_data' = StoreAfterCall(user_id, user_data)
  /\ UNCHANGED <<explanation_table, explanations, engine_type, event, out, threads>>

Next == \E user_id \in UserIds : Resolve(user_id)

Spec == Init /\ [][Next]_vars

(***************************************************************************)
(* rest_routes.py and socket_events.py: the transport handlers.            *)
(***************************************************************************)
\* most log records the store holds, over all users
MaxStoredLogs == 2

\* user_data = {user_id: entry}: the store rebound to the one entry
PutOnly(store, user_id, entry) == user_id :> entry

\* user_data[user_id] = entry
Put(store, user_id, entry) ==
  [k \in DOMAIN store \cup {user_id} |-> IF k = user_id THEN entry ELSE store[k]]

\* data.get('user_id') is truthy
HasUserId(data) == "user_id" \in DOMAIN data /\ data["user_id"] # ""

\* what a handler sends back: an HTTP response, an emitted message, nothing,
\* or the exception that escaped it
Response(user_id, show_explanation, explanation) ==
  [kind |-> "response", user_id |-> user_id, show_explanation |-> show_explanation,
   explanation |-> explanation]
Receival(user_id, explanation) ==
  [kind |-> "explanation_receival", user_id |-> user_id, show_explanation |-> TRUE,
   explanation |-> explanation]
Failure == [kind |-> "error", user_id |-> "", show_explanation |-> FALSE,
            explanation |-> EmptyStr]

Event(kind, data) ==
  [kind |-> kind, user_id |-> IF HasUserId(data) THEN data["user_id"] ELSE "",
   data |-> data]

\* socket_events.py:21-24 with the logs of the payload merged like any other key
MetadataUpdateAll(entry, data) ==
  [k \in DOMAIN entry \cup DOMAIN data |-> IF k \in DOMAIN data THEN data[k] ELSE entry[k]]

\* user_data[user_id].update({key: value for key, value in data.items() if key != 'logs'})
MetadataUpdate(entry, data) ==
  [k \in DOMAIN entry \cup (DOMAIN data \ {"logs"}) |->
     IF k \in DOMAIN data \ {"logs"} THEN data[k] ELSE entry[k]]

\* user_data[user_id]['logs'].append(data.get('log'))
AppendLog(store, user_id, log) ==
  [store EXCEPT ![user_id] = [store[user_id] EXCEPT !["logs"] = Append(store[user_id]["logs"], log)]]

\* every log counts as one to explain
ShouldExplainAlways(log) == TRUE

\* should_explain = data.get('log')['type'] == 'RULE'
ShouldExplain(log) == log["type"] = "RULE"

\* socket_events.py:34-38: the entry and its log list are created when missing
EnsureLogs(store, user_id) ==
  LET store1 == IF user_id \notin DOMAIN store
                THEN Put(store, user_id, "logs" :> <<>>)
                ELSE store
  IN IF "logs" \notin DOMAIN store1[user_id]
     THEN Put(store1, user_id, store1[user_id] @@ ("logs" :> <<>>))
     ELSE store1

\* the number of log records stored
RECURSIVE TotalLogs(_)
TotalLogs(store) ==
  IF DOMAIN store = {} THEN 0
  ELSE LET k == CHOOSE k \in DOMAIN store : TRUE
           rest == [j \in DOMAIN store \ {k} |-> store[j]]
       IN Len(DictGet(store[k], "logs", <<>>)) + TotalLogs(rest)

\* a payload: a JSON object in which every key may be missing
Payload(user_id, current_task, environment, logs) ==
  (IF user_id.set THEN "user_id" :> user_id.value ELSE EmptyDict)
  @@ (IF current_task.set THEN "current_task" :> current_task.value ELSE EmptyDict)
  @@ (IF environment.set THEN "environment" :> environment.value ELSE EmptyDict)
  @@ (IF logs.set THEN "logs" :> logs.value ELSE EmptyDict)

LogPayload(user_id, log) ==
  (IF user_id.set THEN "user_id" :> user_id.value ELSE EmptyDict)
  @@ (IF log.set THEN "log" :> log.value ELSE EmptyDict)

RuleLog == [type |-> "RULE", rule_id |-> greet_rule]
ClickLog == [type |-> "CLICK"]
EventLogRecords == {RuleLog, ClickLog}
\* the log lists of the logger payloads: repetitions of the rule log, or a click
EventLogLists == {[i \in 1..n |-> RuleLog] : n \in 0..MaxStoredLogs} \cup {<<ClickLog>>}
EventTasks == {Greet}
StaticEnvironment == Environment(Some(1), None, Some(Bob))
\* the environments of the payloads, by name: none, or a static one
EventEnvironments == {"none", "static"}
EventEnvironment(name) == IF name = "none" THEN None ELSE Some(StaticEnvironment)
EventCorpus == <<TypeTable1, TextTable1>>

\* the output of a handler that resolved: the exception escapes, or the
\* explanation is sent when available
ResolvedOutput(res, sent, silent) ==
  IF res.outcome = "raise" THEN Failure
  ELSE IF res.available THEN sent
  ELSE silent

\* POST /engine/logger
logger(data) ==
  /\ engine_type = "REST"
  /\ event' = Event("logger", data)
  /\ IF HasUserId(data)
     THEN LET user_id == data["user_id"]
              store == Put(user_data, user_id, data)
              res == generate_explanation(user_id, store, explanation_table, explanations)
          IN /\ TotalLogs(store) <= MaxStoredLogs
             /\ user_data' = StoreAfterCall(user_id, store)
             /\ arg' = user_id
             /\ ret' = res
             /\ out' = ResolvedOutput(res, Response(user_id, TRUE, res.text),
                                      Response(user_id, FALSE, EmptyStr))
     ELSE /\ out' = Response("", FALSE, EmptyStr)
          /\ arg' = ""
          /\ ret' = NoCall
          /\ UNCHANGED user_data
  /\ UNCHANGED <<explanation_table, explanations, again, engine_type, threads>>

\* POST /engine/explanation
explanation(data) ==
  /\ engine_type = "REST"
  /\ event' = Event("explanation", data)
  /\ IF HasUserId(data) /\ data["user_id"] \in DOMAIN user_data
     THEN LET user_id == data["user_id"]
              res == generate_explanation(user_id, user_data, explanation_table,
                                          explanations)
          IN /\ user_data' = StoreAfterCall(user_id, user_data)
             /\ arg' = user_id
             /\ ret' = res
             /\ out' = ResolvedOutput(res, Response("", TRUE, res.text),
                                      Response("", FALSE, EmptyStr))
     ELSE /\ out' = Response("", FALSE, EmptyStr)
          /\ arg' = ""
          /\ ret' = NoCall
          /\ UNCHANGED user_data
  /\ UNCHANGED <<explanation_table, explanations, again, engine_type, threads>>

\* socket event user_metadata
handle_user_metadata(data) ==
  /\ engine_type = "Websocket"
  /\ event' = Event("user_metadata", data)
  /\ IF HasUserId(data)
     THEN LET user_id == data["user_id"]
              store == IF user_id \notin DOMAIN user_data
                       THEN Put(user_data, user_id, EmptyDict)
                       ELSE user_data
          IN user_data' = Put(store, user_id, MetadataUpdate(store[user_id], data))
     ELSE UNCHANGED user_data
  /\ out' = NoOutput
  /\ arg' = ""
  /\ ret' = NoCall
  /\ UNCHANGED <<explanation_table, explanations, again, engine_type, threads>>

\* socket event user_log
handle_user_log(data) ==
  /\ engine_type = "Websocket"
  /\ event' = Event("user_log", data)
  /\ IF HasUserId(data)
     THEN LET user_id == data["user_id"]
              log == DictGet(data, "log", None)
              store == AppendLog(EnsureLogs(user_data, user_id), user_id, log)
              res == generate_explanation(user_id, store, explanation_table, explanations)
          IN /\ TotalLogs(store) <= MaxStoredLogs
             /\ IF log = None
                THEN \* None['type'] raises TypeError, after the append
                     /\ user_data' = store
                     /\ out' = Failure
                     /\ arg' = ""
                     /\ ret' = NoCall
                ELSE IF ShouldExplain(log)
                THEN /\ user_data' = StoreAfterCall(user_id, store)
                     /\ arg' = user_id
                     /\ ret' = res
                     /\ out' = ResolvedOutput(res, Receival(user_id, res.text), NoOutput)
                ELSE /\ user_data' = store
                     /\ out' = NoOutput
                     /\ arg' = ""
                     /\ ret' = NoCall
     ELSE /\ out' = NoOutput
          /\ arg' = ""
          /\ ret' = NoCall
          /\ UNCHANGED user_data
  /\ UNCHANGED <<explanation_table, explanations, again, engine_type, threads>>

\* socket event explanation_request
handle_explanation_request(data) ==
  /\ engine_type = "Websocket"
  /\ event' = Event("explanation_request", data)
  /\ IF HasUserId(data)
     THEN LET user_id == data["user_id"]
              res == generate_explanation(user_id, user_data, explanation_table,
                                          explanations)
          IN /\ user_data' = StoreAfterCall(user_id, user_data)
             /\ arg' = user_id
             /\ ret' = res
             /\ out' = ResolvedOutput(res, Receival(user_id, res.text), NoOutput)
     ELSE /\ out' = NoOutput
          /\ arg' = ""
          /\ ret' = NoCall
          /\ UNCHANGED user_data
  /\ UNCHANGED <<explanation_table, explanations, again, engine_type, threads>>

\* the user_id of a payload: one of the users, or missing
EventUserIds == Optional(UserIds)

\* app.py: an empty store, and the handlers of the configured binding
InitTransport ==
  /\ user_data = EmptyDict
  /\ explanation_table = EventCorpus[1]
  /\ explanations = EventCorpus[2]
  /\ engine_type \in {"REST", "Websocket"}
  /\ arg = ""
  /\ ret = NoCall
  /\ again = FALSE
  /\ event = NoEvent
  /\ out = NoOutput
  /\ threads = <<>>

\* the payloads of the events; a payload without user_id carries nothing else
NextTransport ==
  \/ \E user_id \in EventUserIds, current_task \in Optional(EventTasks),
        environment \in EventEnvironments, logs \in Optional(EventLogLists) :
       /\ user_id.set \/ (~current_task.set /\ environment = "none" /\ ~logs.set)
       /\ logger(Payload(user_id, current_task, EventEnvironment(environment), logs))
  \/ \E user_id \in EventUserIds : explanation(Payload(user_id, None, None, None))
  \/ \E user_id \in EventUserIds, current_task \in Optional(EventTasks),
        environment \in EventEnvironments, logs \in Optional({<<RuleLog>>}) :
       /\ user_id.set \/ (~current_task.set /\ environment = "none" /\ ~logs.set)
       /\ handle_user_metadata(Payload(user_id, current_task,
                                       EventEnvironment(environment), logs))
  \/ \E user_id \in EventUserIds, log \in Optional(EventLogRecords) :
       /\ user_id.set \/ ~log.set
       /\ handle_user_log(LogPayload(user_id, log))
  \/ \E user_id \in EventUserIds :
       handle_explanation_request(Payload(user_id, None, None, None))

SpecTransport == InitTransport /\ [][NextTransport]_vars

(***************************************************************************)
(* socket_events.py: two handlers for one user, run by two threads that    *)
(* share user_data without a lock.  A step is one read or one write of the *)
(* store; a thread keeps its payload and its position in the handler.      *)
(***************************************************************************)
\* the entries the user has when the two handlers start, by name
StartStores == {"empty", "metadata", "logged"}
StartStore(name) ==
  IF name = "empty" THEN EmptyDict
  ELSE IF name = "metadata"
  THEN "u1" :> Payload(None, Some(Greet), Some(StaticEnvironment), None)
  ELSE "u1" :> Payload(None, Some(Greet), Some(StaticEnvironment), Some(<<RuleLog>>))

\* the handlers the threads run, by name, and their payloads
Handlers == {"user_log_rule", "user_log_click", "user_metadata", "explanation_request"}
HandlerKind(name) ==
  IF name \in {"user_log_rule", "user_log_click"} THEN "user_log" ELSE name
HandlerData(name) ==
  IF name = "user_log_rule" THEN LogPayload(Some("u1"), Some(RuleLog))
  ELSE IF name = "user_log_click" THEN LogPayload(Some("u1"), Some(ClickLog))
  ELSE IF name = "user_metadata"
  THEN Payload(Some("u1"), Some(Greet), Some(StaticEnvironment), None)
  ELSE Payload(Some("u1"), None, None, None)

\* a thread at the first line of its handler; start is the store at that time
\* and seen the store its resolution read
Thread(name, store) ==
  [kind |-> HandlerKind(name), data |-> HandlerData(name), pc |-> "start",
   seen |-> None, start |-> store]

At(t, kind, pc) == threads[t].kind = kind /\ threads[t].pc = pc
Goto(t, pc) == [threads EXCEPT ![t].pc = pc]
UserOf(t) == threads[t].data["user_id"]

\* the variables a step that neither resolves nor fails leaves alone
silent == <<explanation_table, explanations, arg, ret, again, engine_type, event, out>>

\* socket_events.py:33  if user_id not in user_data
user_log_check_user(t) ==
  /\ At(t, "user_log", "start")
  /\ threads' = Goto(t, IF UserOf(t) \notin DOMAIN user_data THEN "create" ELSE "check_logs")
  /\ UNCHANGED user_data
  /\ UNCHANGED silent

\* socket_events.py:34  user_data[user_id] = {'logs': []}
user_log_create_entry(t) ==
  /\ At(t, "user_log", "create")
  /\ user_data' = Put(user_data, UserOf(t), "logs" :> <<>>)
  /\ threads' = Goto(t, "check_logs")
  /\ UNCHANGED silent

\* socket_events.py:36  if 'logs' not in user_data[user_id]
user_log_check_logs(t) ==
  /\ At(t, "user_log", "check_logs")
  /\ threads' = Goto(t, IF "logs" \notin DOMAIN user_data[UserOf(t)]
                        THEN "create_logs" ELSE "append")
  /\ UNCHANGED user_data
  /\ UNCHANGED silent

\* socket_events.py:37  user_data[user_id]['logs'] = []
user_log_create_logs(t) ==
  /\ At(t, "user_log", "create_logs")
  /\ user_data' = Put(user_data, UserOf(t),
                      [k \in DOMAIN user_data[UserOf(t)] \cup {"logs"} |->
                         IF k = "logs" THEN <<>> ELSE user_data[UserOf(t)][k]])
  /\ threads' = Goto(t, "append")
  /\ UNCHANGED silent

\* socket_events.py:39-43  the append, a KeyError when the entry has no logs
\* any more, and should_explain
user_log_append(t) ==
  /\ At(t, "user_log", "append")
  /\ IF "logs" \in DOMAIN user_data[UserOf(t)]
     THEN /\ user_data' = AppendLog(user_data, UserOf(t), threads[t].data["log"])
          /\ threads' = Goto(t, IF ShouldExplain(threads[t].data["log"])
                                THEN "resolve" ELSE "done")
          /\ UNCHANGED out
     ELSE /\ UNCHANGED user_data
          /\ threads' = Goto(t, "failed")
          /\ out' = Failure
  /\ UNCHANGED <<explanation_table, explanations, arg, ret, again, engine_type, event>>

\* the resolution of a handler and its emission
ResolveStep(t) ==
  LET user_id == UserOf(t)
      res == generate_explanation(user_id, user_data, explanation_table, explanations)
  IN /\ user_data' = StoreAfterCall(user_id, user_data)
     /\ arg' = user_id
     /\ ret' = res
     /\ out' = ResolvedOutput(res, Receival(user_id, res.text), out)
     /\ threads' = [threads EXCEPT ![t].pc = "done", ![t].seen = Some(user_data)]
     /\ UNCHANGED <<explanation_table, explanations, again, engine_type, event>>

\* socket_events.py:45-51
user_log_resolve(t) == At(t, "user_log", "resolve") /\ ResolveStep(t)

\* socket_events.py:17  if user_id not in user_data
user_metadata_check_user(t) ==
  /\ At(t, "user_metadata", "start")
  /\ threads' = Goto(t, IF UserOf(t) \notin DOMAIN user_data THEN "create" ELSE "update")
  /\ UNCHANGED user_data
  /\ UNCHANGED silent

\* socket_events.py:18  user_data[user_id] = {}
user_metadata_create_entry(t) ==
  /\ At(t, "user_metadata", "create")
  /\ user_data' = Put(user_data, UserOf(t), EmptyDict)
  /\ threads' = Goto(t, "update")
  /\ UNCHANGED silent

\* socket_events.py:21-23  user_data[user_id].update(...)
user_metadata_update(t) ==
  /\ At(t, "user_metadata", "update")
  /\ user_data' = Put(user_data, UserOf(t),
                      MetadataUpdate(user_data[UserOf(t)], threads[t].data))
  /\ threads' = Goto(t, "done")
  /\ UNCHANGED silent

\* socket_events.py:57-63
explanation_request_resolve(t) == At(t, "explanation_request", "start") /\ ResolveStep(t)

\* app.py: the socket binding, and two handlers for u1 received together
InitConcurrent ==
  /\ \E name \in StartStores : user_data = StartStore(name)
  /\ explanation_table = EventCorpus[1]
  /\ explanations = EventCorpus[2]
  /\ engine_type = "Websocket"
  /\ arg = ""
  /\ ret = NoCall
  /\ again = FALSE
  /\ event = NoEvent
  /\ out = NoOutput
  /\ \E first \in Handlers, second \in Handlers :
       threads = <<Thread(first, user_data), Thread(second, user_data)>>

NextConcurrent ==
  \/ \E t \in DOMAIN threads : user_log_check_user(t)
  \/ \E t \in DOMAIN threads : user_log_create_entry(t)
  \/ \E t \in DOMAIN threads : user_log_check_logs(t)
  \/ \E t \in DOMAIN threads : user_log_create_logs(t)
  \/ \E t \in DOMAIN threads : user_log_append(t)
  \/ \E t \in DOMAIN threads : user_log_resolve(t)
  \/ \E t \in DOMAIN threads : user_metadata_check_user(t)
  \/ \E t \in DOMAIN threads : user_metadata_create_entry(t)
  \/ \E t \in DOMAIN threads : user_metadata_update(t)
  \/ \E t \in DOMAIN threads : explanation_request_resolve(t)

SpecConcurrent == InitConcurrent /\ [][NextConcurrent]_vars

(***************************************************************************)
(* The inputs of the last call, read from the store as the data model of   *)
(* the specification describes them.                                       *)
(***************************************************************************)
Called == ret.outcome # "none"
Returned == ret.outcome = "return"
Known == arg \in DOMAIN user_data
HasTask == Known /\ "current_task" \in DOMAIN user_data[arg]
TaskOf == user_data[arg]["current_task"]
EnvOf == IF "environment" \in DOMAIN user_data[arg] THEN user_data[arg]["environment"] ELSE <<>>
LogsOf == IF "logs" \in DOMAIN user_data[arg] THEN user_data[arg]["logs"] ELSE <<>>
EnvHas(name) == \E i \in DOMAIN EnvOf : EnvOf[i].name = name
EnvIs(name, value) == \E i \in DOMAIN EnvOf : EnvOf[i].name = name /\ EnvOf[i].value = value

\* lowercase(current_task) + "_rule", written out for the tasks of the model
ExpectedRuleId == CASE TaskOf = Greet -> greet_rule [] TaskOf = greet -> greet_rule

MatchCount ==
  Cardinality({i \in DOMAIN LogsOf :
                 LogsOf[i].type = "RULE" /\ LogsOf[i].rule_id = ExpectedRuleId})

Bucket ==
  CASE MatchCount = 0 -> "none"
    [] MatchCount = 1 -> "first"
    [] MatchCount = 2 -> "second"
    [] MatchCount > 2 -> "more"

BucketRank(bucket) ==
  CASE bucket = "none" -> 0 [] bucket = "first" -> 1 [] bucket = "second" -> 2
    [] bucket = "more" -> 3

\* the type table has an entry for (Technical_Interest, bucket, current_task)
TypeHit(interest) ==
  /\ EnvIs("Technical_Interest", interest)
  /\ interest \in DOMAIN explanation_table
  /\ Bucket \in DOMAIN explanation_table[interest]
  /\ TaskOf \in DOMAIN explanation_table[interest][Bucket]

\* the condition is treatment: Condition is absent or is not 1
IsTreatment == ~EnvIs("Condition", 1)

\* the call came to build a key: a task, an occurrence, and on the treatment
\* branch an entry of the type table
KeyConstructed ==
  /\ Called /\ HasTask /\ MatchCount >= 1
  /\ IsTreatment => \E interest \in Interests : TypeHit(interest)

\* the key the specification gives, written out for the tasks and suffixes of the model
ExpectedKey ==
  IF ~IsTreatment
  THEN CASE TaskOf = Greet -> Greet_static [] TaskOf = greet -> greet_static
  ELSE LET interest == CHOOSE i \in Interests : TypeHit(i)
           suffix == explanation_table[interest][Bucket][TaskOf]
       IN CASE TaskOf = Greet /\ suffix = soft -> Greet_treatment_soft
            [] TaskOf = Greet /\ suffix = tech -> Greet_treatment_tech
            [] TaskOf = greet /\ suffix = soft -> greet_treatment_soft
            [] TaskOf = greet /\ suffix = tech -> greet_treatment_tech

(***************************************************************************)
(* Error handling.                                                         *)
(***************************************************************************)
\* C1: generate_explanation never raises: every call on a conforming
\* snapshot ends by returning a (text, available) pair.
C1_NeverRaises == ret.outcome # "raise"

\* C2: with a task, at least one matching RULE log, a Condition that is not 1
\* and no Technical_Interest record, the call returns available=false.
C2_MissingInterestUnavailable ==
  (Called /\ HasTask /\ MatchCount >= 1 /\ IsTreatment /\ ~EnvHas("Technical_Interest"))
    => (Returned /\ ~ret.available)

\* C3: on the treatment branch with Technical_Interest present and no entry of
\* the type table for (interest, bucket, task), the call returns available=false.
C3_TypeMissUnavailable ==
  (/\ Called /\ HasTask /\ MatchCount >= 1 /\ IsTreatment
   /\ EnvHas("Technical_Interest")
   /\ ~\E interest \in Interests : TypeHit(interest))
    => (Returned /\ ~ret.available)

\* C4: when a key is constructed and the text table has no entry for it, the
\* call returns exactly "Explanation not found." with available=true.
C4_TextMissFallback ==
  (KeyConstructed /\ ExpectedKey \notin DOMAIN explanations)
    => (Returned /\ ret.available /\ ret.text = NotFoundText)

\* C5: when the key hits the text table and there is no User_Name record, the
\* call returns the template unchanged with available=true.
C5_NoUserNameKeepsTemplate ==
  (KeyConstructed /\ ExpectedKey \in DOMAIN explanations /\ ~EnvHas("User_Name"))
    => (Returned /\ ret.available /\ ret.text = explanations[ExpectedKey])

(***************************************************************************)
(* Key construction, occurrence bucketing and the short-circuits.          *)
(***************************************************************************)
\* C6: with Condition equal to 1 the key is current_task + "_static" whatever
\* the interest and the bucket, and the type table is not read; with any other
\* Condition, an absent one included, the key is current_task + "_treatment_"
\* + the type-table entry for (Technical_Interest, bucket, current_task); an
\* absent Condition with a type-table entry and a User_Name is no error.
C6_KeyByCondition ==
  KeyConstructed =>
    /\ ret.key_built
    /\ ret.explanation_key = ExpectedKey
    /\ ret.type_read = IsTreatment
    /\ (~EnvHas("Condition") /\ EnvHas("User_Name")) => (Returned /\ ret.available)

\* a treatment key built for a snapshot without Condition, next to which the
\* claim also covers Condition = 1 with an interest the type table lacks
C6_Witness ==
  /\ KeyConstructed /\ ~EnvHas("Condition") /\ EnvHas("User_Name")
  /\ ret.explanation_key = Greet_treatment_tech
  /\ Bucket = "more"

\* C7: the bucket is decided by the number of logs of type RULE whose rule_id
\* is lowercase(current_task) + "_rule" alone: 0 none, 1 first, 2 second, more
\* than 2 more; it never decreases when that number grows.
C7_OccurrenceBucket ==
  /\ (Called /\ HasTask) => ret.occurrence = Bucket
  /\ \A m \in 0..(MaxLogs + 1), n \in 0..(MaxLogs + 1) :
       m <= n => BucketRank(Occurrence(m)) <= BucketRank(Occurrence(n))

\* three matching logs and one other log: more
C7_Witness ==
  /\ Called /\ HasTask /\ TaskOf = Greet
  /\ MatchCount = 3 /\ Len(LogsOf) = 4
  /\ ret.occurrence = "more"

\* C8: for a user id that is not in the store, or whose snapshot has no
\* current_task, the call returns ("No data available for explanation.", false).
C8_NoDataUnavailable ==
  (Called /\ ~HasTask) => (Returned /\ ~ret.available /\ ret.text = NoDataText)

\* a stored snapshot without current_task whose logs hold a RULE log
C8_Witness ==
  /\ Called /\ Known /\ ~HasTask
  /\ \E i \in DOMAIN LogsOf : LogsOf[i].type = "RULE"
  /\ EnvHas("Condition")
  /\ ~ret.available

\* C9: with a task and no log of type RULE with the derived rule_id, the call
\* returns available=false whatever the environment holds, and opens neither
\* corpus table.
C9_NothingToExplain ==
  (Called /\ HasTask /\ MatchCount = 0)
    => (Returned /\ ~ret.available /\ ~ret.type_read /\ ~ret.text_read)

\* logs that hold only a RULE log of another rule_id and a non-RULE log, on
\* the treatment branch without Technical_Interest and User_Name
C9_Witness ==
  /\ Called /\ HasTask /\ MatchCount = 0 /\ Len(LogsOf) >= 2
  /\ \E i \in DOMAIN LogsOf : LogsOf[i].type = "RULE"
  /\ ~EnvHas("Technical_Interest") /\ ~EnvHas("User_Name")
  /\ ~ret.available

(***************************************************************************)
(* Name substitution.                                                      *)
(***************************************************************************)
\* the template the key resolves to, and the User_Name of the snapshot
TemplateOf == explanations[ExpectedKey]
UserNameOf == CHOOSE user_name \in UserNames : EnvIs("User_Name", user_name)

\* the number of places of s where p occurs
Occurrences(s, p) ==
  Cardinality({i \in 0..(Len(s) - Len(p)) : SubSeq(s, i + 1, i + Len(p)) = p})

\* the key hits a template that holds the placeholder, and User_Name is set
PlaceholderCase ==
  /\ KeyConstructed /\ ExpectedKey \in DOMAIN explanations
  /\ Contains(TemplateOf, Alice)
  /\ EnvHas("User_Name")

\* a name that is not empty and holds none of the letters of the placeholder
DisjointName(user_name) ==
  /\ user_name # EmptyStr
  /\ \A i \in DOMAIN user_name : \A j \in DOMAIN Alice : user_name[i] # Alice[j]

C11_StoreUnchanged == [][user_data' = user_data]_vars

\* a call for a user id the store does not hold, next to an entry of another user
C11_Witness ==
  /\ Called /\ arg = "u2"
  /\ DOMAIN user_data = {"u1"}
  /\ ret.text = NoDataText

LogsIn(store, user_id) ==
  IF user_id \in DOMAIN store /\ "logs" \in DOMAIN store[user_id]
  THEN store[user_id]["logs"]
  ELSE <<>>

IsPrefix(a, b) == Len(a) <= Len(b) /\ SubSeq(b, 1, Len(a)) = a

\* C13: no transport event removes a user entry, and the logs a user had
\* before an event are a prefix of the logs the user has after it.
C13_StoreOnlyGrows ==
  [][\A user_id \in DOMAIN user_data :
       /\ user_id \in DOMAIN user_data'
       /\ IsPrefix(LogsIn(user_data, user_id), LogsIn(user_data', user_id))]_vars

\* the whole update of a handler, made in one step
Whole(thread, store) ==
  LET user_id == thread.data["user_id"]
  IN IF thread.kind = "user_log"
     THEN AppendLog(EnsureLogs(store, user_id), user_id, thread.data["log"])
     ELSE IF thread.kind = "user_metadata"
     THEN LET store1 == IF user_id \notin DOMAIN store
                        THEN Put(store, user_id, EmptyDict)
                        ELSE store
          IN Put(store1, user_id, MetadataUpdate(store1[user_id], thread.data))
     ELSE store

Finished(t) == threads[t].pc \in {"done", "failed"}

\* the stores one handler after the other leaves, in either order
Serial(store) ==
  \/ store = Whole(threads[2], Whole(threads[1], threads[1].start))
  \/ store = Whole(threads[1], Whole(threads[2], threads[1].start))

\* the store the resolution of thread t read holds the update of its own
\* handler, and the update of the other handler whole or not at all
SeenWhole(t, other) ==
  threads[t].seen.set =>
    \/ threads[t].seen.value = Whole(threads[t], threads[t].start)
    \/ Serial(threads[t].seen.value)

\* C14: two handlers for one user that interleave at their store reads and
\* writes lose no update: when both have finished the store is the one that
\* one handler after the other leaves (both logs, or the merged metadata and
\* the log), and a resolution read the store before or after a whole update
\* of the other handler.
C14_AtomicUpdates ==
  (Len(threads) = 2 /\ Finished(1) /\ Finished(2)) =>
    /\ Serial(user_data)
    /\ SeenWhole(1, 2)
    /\ SeenWhole(2, 1)

\* the last event was a user_log with a user_id and a log record
UserLogHandled ==
  /\ event.kind = "user_log" /\ event.user_id # ""
  /\ "log" \in DOMAIN event.data

\* C15: a user_log event appends its log to the user's logs before it
\* resolves, so the bucket of the resolution counts that log; an
\* explanation_receival for the user is emitted exactly when the log has type
\* RULE and the resolution is available.
C15_UserLogAppendsThenResolves ==
  [][UserLogHandled' =>
       LET user_id == event'.user_id
           log == event'.data["log"]
       IN /\ LogsIn(user_data', user_id) = Append(LogsIn(user_data, user_id), log)
          /\ (log.type = "RULE") = (Called' /\ arg' = user_id)
          /\ (Called' /\ ret'.occurrence # "") => ret'.occurrence = Bucket'
          /\ (out'.kind = "explanation_receival")
               = (log.type = "RULE" /\ Returned' /\ ret'.available)
          /\ (out'.kind = "explanation_receival")
               => (out'.user_id = user_id /\ out'.explanation = ret'.text)]_vars

\* the second rule log of u1 arrives and its explanation is emitted
C15_Witness ==
  /\ UserLogHandled /\ event.user_id = "u1"
  /\ out.kind = "explanation_receival"
  /\ ret.occurrence = "second"
  /\ Len(LogsIn(user_data, "u1")) = 2

\* the last event was a user_metadata with a user_id
MetadataHandled == event.kind = "user_metadata" /\ event.user_id # ""

\* C16: a user_metadata event sets every key of its payload but logs in the
\* user's entry, keeps the keys the payload does not mention, and leaves the
\* stored logs as they were, also when the payload carries logs.
C16_MetadataMergesAllButLogs ==
  [][MetadataHandled' =>
       LET data == event'.data
           old == DictGet(user_data, event'.user_id, EmptyDict)
           new == user_data'[event'.user_id]
       IN /\ DOMAIN new = DOMAIN old \cup (DOMAIN data \ {"logs"})
          /\ \A k \in DOMAIN data \ {"logs"} : new[k] = data[k]
          /\ \A k \in DOMAIN old \ DOMAIN data : new[k] = old[k]
          /\ "logs" \in DOMAIN old => new["logs"] = old["logs"]]_vars

\* a payload with logs and a task handled for a user whose stored logs differ
C16_Witness ==
  /\ MetadataHandled /\ event.user_id = "u1"
  /\ "logs" \in DOMAIN event.data /\ "current_task" \in DOMAIN event.data
  /\ LogsIn(user_data, "u1") = <<ClickLog>>

\* C17: an event for one user leaves the entry of every other user as it was,
\* and with it the result of generate_explanation for that user.
C17_CrossUserIsolation ==
  [][\A other \in UserIds :
       other # event'.user_id =>
         /\ (other \in DOMAIN user_data') = (other \in DOMAIN user_data)
         /\ other \in DOMAIN user_data => user_data'[other] = user_data[other]
         /\ generate_explanation(other, user_data', explanation_table', explanations')
              = generate_explanation(other, user_data, explanation_table, explanations)]_vars

\* a user_log for u1 handled while u2 has an explanation available
C17_Witness ==
  /\ UserLogHandled /\ event.user_id = "u1"
  /\ "u2" \in DOMAIN user_data
  /\ generate_explanation("u2", user_data, explanation_table, explanations).available

\* C18: from one resolution for a user to the next, with current_task the
\* same, the occurrence bucket does not go backward.
C18_BucketNeverDecreases ==
  [][(/\ Called /\ Called' /\ arg' = arg
      /\ ret.occurrence # "" /\ ret'.occurrence # ""
      /\ TaskOf' = TaskOf)
       => BucketRank(ret.occurrence) <= BucketRank(ret'.occurrence)]_vars

\* C19: a user_log event whose payload has a user_id and no log leaves the
\* store as it was, so that every stored log is a log record.
C19_UserLogAllOrNothing ==
  [][/\ (event'.kind = "user_log" /\ event'.user_id # "" /\ "log" \notin DOMAIN event'.data)
          => user_data' = user_data
     /\ \A user_id \in DOMAIN user_data' :
          \A i \in DOMAIN LogsIn(user_data', user_id) :
            LogsIn(user_data', user_id)[i] # None]_vars

====
